---- MODULE Spec2Model ----
(***************************************************************************)
(* A model of the RAG backend (resul-ai/rag-with-gpt5): document ingest,   *)
(* chunking, similarity search and the query pipeline, over a              *)
(* transactional store (PostgreSQL, read committed) and an external        *)
(* embedding / completion provider.                                        *)
(*                                                                         *)
(* Texts are sequences of characters.  Scores are cosine similarities in   *)
(* fifths (ScoreScale = 1.0), so the configured threshold 0.4 is 2.        *)
(***************************************************************************)
EXTENDS Integers, Sequences, FiniteSets, TLC

VARIABLES
    settings,   \* the loaded Settings (chunk_size, chunk_overlap)
    committed,  \* the committed rows of the four tables
    nextId,     \* the tables' id sequences (never rolled back)
    sess,       \* per request task: its AsyncSession and its locals
    started,    \* number of requests accepted so far
    mode,       \* "serial": one request in flight; "concurrent": interleaved
    ck,         \* the loop state of one _chunk_text call run stepwise
    call        \* one call of a helper run on its own: arguments and result

vars == <<settings, committed, nextId, sess, started, mode, ck, call>>

\* ---------------------------------------------------------------- bounds

MaxTextLen == 4
MaxDocLen == 3
MaxChunkSize == 2
MaxRequests == 2
EmbMod == 4

Procs == {"t1", "t2"}

\* ------------------------------------------------------------ python bits

Min(a, b) == IF a < b THEN a ELSE b
Max(a, b) == IF a > b THEN a ELSE b

\* Python's s[start:end] for integers start, end (0-based, negative indices
\* count from the end, everything clamped to the sequence).
PySlice(s, start, end) ==
    LET n  == Len(s)
        lo == IF start < 0 THEN Max(start + n, 0) ELSE Min(start, n)
        hi == IF end < 0 THEN Max(end + n, 0) ELSE Min(end, n)
    IN  IF lo < hi THEN SubSeq(s, lo + 1, hi) ELSE <<>>

\* A text of n characters, each character distinct (its position), so that a
\* chunk shows which positions of the text it holds.
Text(n) == [i \in 1..n |-> i]

Texts == {Text(n) : n \in 0..MaxTextLen}

\* ------------------------------------------------------------- settings

\* Settings.chunk_size / Settings.chunk_overlap as loaded from the
\* environment: any pair, valid or not (nothing validates them).
Configs ==
    {[chunk_size |-> s, chunk_overlap |-> o] :
        s \in 1..MaxChunkSize, o \in 0..MaxChunkSize}

ValidConfig(cfg) == cfg.chunk_size > 0 /\ 0 <= cfg.chunk_overlap
                    /\ cfg.chunk_overlap < cfg.chunk_size

ValidConfigs == {cfg \in Configs : ValidConfig(cfg)}

\* ------------------------------------------------------------- chunker

\* The emit test of _chunk_text: "Avoid very small final chunks".
EmitWindowStrict(chunk, start, overlap) == Len(chunk) > overlap + 1 \/ start = 0

EmitWindowNoFirst(chunk, start, overlap) == Len(chunk) > overlap

EmitWindow(chunk, start, overlap) == Len(chunk) > overlap \/ start = 0

\* The next window start of _chunk_text.
NextStartStuck(end, chunk_size, overlap) == end - chunk_size

NextStart(end, chunk_size, overlap) == end - overlap

\* One iteration of the while loop of _chunk_text on the loop state
\* [start, chunks].
ChunkBody(cfg, text, st) ==
    LET end   == st.start + cfg.chunk_size
        chunk == PySlice(text, st.start, end)
    IN  [start  |-> NextStart(end, cfg.chunk_size, cfg.chunk_overlap),
         chunks |-> IF EmitWindow(chunk, st.start, cfg.chunk_overlap)
                    THEN Append(st.chunks, chunk) ELSE st.chunks]

RECURSIVE ChunkLoop(_, _, _)
ChunkLoop(cfg, text, st) ==
    IF st.start < Len(text) THEN ChunkLoop(cfg, text, ChunkBody(cfg, text, st))
    ELSE st.chunks

\* _chunk_text(text) under a configuration for which the loop ends.
ChunkText(cfg, text) == ChunkLoop(cfg, text, [start |-> 0, chunks |-> <<>>])


\* ------------------------------------------------------- python values

\* Optional[int] arguments: <<>> is None, <<n>> is the integer n.
None == <<>>
Some(n) == <<n>>

Truthy(x) == x # None /\ x[1] # 0

\* Python's  x or default  on an Optional[int].
PyOr(x, default) == IF Truthy(x) THEN x[1] ELSE default

\* ------------------------------------------------------------- provider

\* tenacity: stop_after_attempt(3), reraise=True.
MaxAttempts == 3

\* The embedding the provider's model computes for a text: a direction
\* 0..EmbMod-1, fixed by the text.
TrueEmbedding(t) == IF t = <<>> THEN 0 ELSE (t[1] + Len(t) - 1) % EmbMod

ExactEmbeddings(texts) == [i \in 1..Len(texts) |-> TrueEmbedding(texts[i])]

Reverse(s) == [i \in 1..Len(s) |-> s[Len(s) + 1 - i]]

\* What response.data of one embeddings.create call can hold: one item per
\* input in input order, or (a provider that misbehaves) the items in another
\* order, one item short, or one item too many.
EmbedResponses(texts) ==
    LET exact == ExactEmbeddings(texts)
    IN  {exact, Reverse(exact), Append(exact, 0)}
        \cup (IF exact = <<>> THEN {} ELSE {SubSeq(exact, 1, Len(exact) - 1)})

\* generate_embeddings: embeddings = [item.embedding for item in response.data]
EmbeddingsOf(data) == data

\* The text the completion provider generates (no query reads like it).
AnswerText == <<0>>

\* The completion the provider returns for a message sequence.
CompletionOf(messages) ==
    [content |-> AnswerText, model |-> "gpt-5-nano", usage |-> Len(messages)]

\* ---------------------------------------------------------------- store

\* Cosine similarity 1.0 in the model's unit (fifths).
ScoreScale == 5

\* Settings.rag_similarity_threshold = 0.4
rag_similarity_threshold == 2

\* conversation.py: top_k=request.top_k or 5
DefaultTopK == 5

Abs(x) == IF x < 0 THEN -x ELSE x

\* 1 - (embedding <=> query_embedding): 1.0 for the same direction, falling
\* by 0.4 per step between directions.
Similarity(e, q) == ScoreScale - 2 * Abs(e - q)

EmptyTables == [docs |-> {}, chunks |-> {}, convs |-> {}, msgs |-> {}]

\* Rows a session has added or flushed inside its open transaction.
EmptyPend == [docs |-> {}, chunks |-> <<>>, convs |-> {}, msgs |-> <<>>]

\* The rows of pending objects once INSERTed: ids drawn from the sequence in
\* the order the objects were added.
WithIds(objs, first) ==
    {[objs[i] EXCEPT !.id = first + i - 1] : i \in 1..Len(objs)}

\* COMMIT of a session's transaction: its rows become visible to all.
CommitRowsDropChunks(tables, pend, ids) ==
    [docs   |-> tables.docs \cup pend.docs,
     chunks |-> IF pend.msgs # <<>> THEN {}
                ELSE tables.chunks \cup WithIds(pend.chunks, ids.chunk),
     convs  |-> tables.convs \cup pend.convs,
     msgs   |-> tables.msgs \cup WithIds(pend.msgs, ids.msg)]

CommitRowsLastWins(tables, pend, ids) ==
    [docs   |-> tables.docs \cup pend.docs,
     chunks |-> tables.chunks \cup WithIds(pend.chunks, ids.chunk),
     convs  |-> tables.convs \cup pend.convs,
     msgs   |-> {m \in tables.msgs :
                    \A i \in 1..Len(pend.msgs) :
                        \/ m.conversation_id # pend.msgs[i].conversation_id
                        \/ m.id < ids.msg - 2}
                \cup WithIds(pend.msgs, ids.msg)]

CommitRows(tables, pend, ids) ==
    [docs   |-> tables.docs \cup pend.docs,
     chunks |-> tables.chunks \cup WithIds(pend.chunks, ids.chunk),
     convs  |-> tables.convs \cup pend.convs,
     msgs   |-> tables.msgs \cup WithIds(pend.msgs, ids.msg)]

IdsAfterCommit(pend, ids) ==
    [ids EXCEPT !.chunk = @ + Len(pend.chunks), !.msg = @ + Len(pend.msgs)]

\* ------------------------------------------------------------- sessions

IdleSess ==
    [op |-> "none", pc |-> "idle", failed_at |-> "", error |-> "",
     pend |-> EmptyPend, texts |-> <<>>, attempt |-> 0,
     content |-> <<>>, document_id |-> 0, chunks |-> <<>>,
     query |-> <<>>, conversation_id |-> None, top_k |-> 0,
     similarity_threshold |-> None,
     include_sources |-> TRUE, conv |-> 0, created_conv |-> FALSE,
     query_embedding |-> 0, similar_chunks |-> <<>>,
     embed_called |-> FALSE, sql_issued |-> FALSE,
     completion_called |-> FALSE,
     messages |-> <<>>, llm_response |-> <<>>, message_id |-> 0,
     response |-> <<>>]

\* session.rollback(): the open transaction's rows are discarded.
RollbackKeep(s) == s

Rollback(s) == [s EXCEPT !.pend = EmptyPend]

\* The call ends with an exception: its locals are gone.
Failed(s, err) ==
    [s EXCEPT !.pc = "failed", !.failed_at = s.pc, !.error = err,
              !.texts = <<>>, !.attempt = 0, !.chunks = <<>>,
              !.content = <<>>, !.query_embedding = 0,
              !.similar_chunks = <<>>, !.messages = <<>>,
              !.llm_response = <<>>]

\* create_document, add_document_chunks, process_query:
\*   except Exception: await self.db.rollback(); raise
\* A bare similarity_search call only logs and re-raises.
Raise(s, err) ==
    IF s.op = "search" THEN Failed(s, err) ELSE Failed(Rollback(s), err)

\* A task takes a new request when it is idle and the request budget allows.
\* In serial mode one request is in flight at a time, and (the tasks being
\* interchangeable) task "t1" runs it.
CanStart(p) ==
    /\ sess[p].pc = "idle"
    /\ started < MaxRequests
    /\ mode = "serial" => p = "t1"

\* One failed attempt of a provider call under @retry: wait and try again, or,
\* after the third failure, re-raise the provider's error to the handler,
\* whose except clause rolls back.
AttemptFailsFour(s) ==
    IF s.attempt < MaxAttempts + 1 THEN [s EXCEPT !.attempt = @ + 1]
    ELSE Raise(s, "ProviderError")

AttemptFails(s) ==
    IF s.attempt < MaxAttempts THEN [s EXCEPT !.attempt = @ + 1]
    ELSE Raise(s, "ProviderError")

\* --------------------------------------------------------------- ingest

\* The document bodies of the ingest requests.
Contents == {Text(n) : n \in 0..MaxDocLen}

\* add_document_chunks: for idx, (chunk_text, embedding) in
\* enumerate(zip(chunks, embeddings)): DocumentChunk(...)
ZipChunks(document_id, chunks, embeddings) ==
    [i \in 1..Min(Len(chunks), Len(embeddings)) |->
        [id |-> 0, document_id |-> document_id, chunk_text |-> chunks[i],
         chunk_index |-> i - 1, embedding |-> embeddings[i]]]

\* POST /api/documents/ is accepted: DocumentService(db).create_document.
StartIngest(p) ==
    /\ CanStart(p)
    /\ \E content \in Contents :
          sess' = [sess EXCEPT ![p] =
                     [IdleSess EXCEPT !.op = "ingest", !.pc = "cd_flush",
                                      !.content = content]]
    /\ started' = started + 1
    /\ UNCHANGED <<settings, committed, nextId, mode, ck, call>>

\* db.add(document); await db.flush(); chunks = self._chunk_text(content)
CdFlush(p) ==
    /\ sess[p].pc = "cd_flush"
    /\ \/ /\ LET s      == sess[p]
                 chunks == ChunkText(settings, s.content)
             IN  sess' = [sess EXCEPT ![p] =
                    [s EXCEPT !.pend.docs = {[id |-> nextId.doc, content |-> s.content]},
                              !.document_id = nextId.doc,
                              !.chunks = chunks, !.texts = chunks,
                              !.attempt = 1, !.pc = "adc_embed"]]
          /\ nextId' = [nextId EXCEPT !.doc = @ + 1]
       \/ /\ sess' = [sess EXCEPT ![p] = Raise(sess[p], "StoreError")]
          /\ UNCHANGED nextId
    /\ UNCHANGED <<settings, committed, started, mode, ck, call>>

\* add_document_chunks: one attempt of generate_embeddings(chunks); on a
\* response the chunk objects are added to the session.
AdcEmbed(p) ==
    /\ sess[p].pc = "adc_embed"
    /\ \/ \E data \in EmbedResponses(sess[p].texts) :
            LET s == sess[p]
            IN  sess' = [sess EXCEPT ![p] =
                   [s EXCEPT !.pend.chunks =
                                 ZipChunks(s.document_id, s.chunks, EmbeddingsOf(data)),
                             !.texts = <<>>, !.attempt = 0,
                             !.embed_called = TRUE, !.pc = "adc_commit"]]
       \/ sess' = [sess EXCEPT ![p] =
                     AttemptFails([sess[p] EXCEPT !.embed_called = TRUE])]
    /\ UNCHANGED <<settings, committed, nextId, started, mode, ck, call>>

\* add_document_chunks: await self.db.commit()  (flushes the chunk INSERTs)
AdcCommit(p) ==
    /\ sess[p].pc = "adc_commit"
    /\ \/ /\ committed' = CommitRows(committed, sess[p].pend, nextId)
          /\ nextId' = IdsAfterCommit(sess[p].pend, nextId)
          /\ sess' = [sess EXCEPT ![p] =
                        [sess[p] EXCEPT !.pend = EmptyPend, !.pc = "cd_commit"]]
       \/ /\ sess' = [sess EXCEPT ![p] = Raise(sess[p], "StoreError")]
          /\ UNCHANGED <<committed, nextId>>
    /\ UNCHANGED <<settings, started, mode, ck, call>>

\* create_document: await self.db.commit()  (nothing is pending any more)
CdCommit(p) ==
    /\ sess[p].pc = "cd_commit"
    /\ \/ sess' = [sess EXCEPT ![p] = [sess[p] EXCEPT !.pc = "cd_refresh"]]
       \/ sess' = [sess EXCEPT ![p] = Raise(sess[p], "StoreError")]
    /\ UNCHANGED <<settings, committed, nextId, started, mode, ck, call>>

\* create_document: await self.db.refresh(document); return the response
CdRefresh(p) ==
    /\ sess[p].pc = "cd_refresh"
    /\ \/ \E d \in committed.docs :
            /\ d.id = sess[p].document_id
            /\ sess' = [sess EXCEPT ![p] =
                          [sess[p] EXCEPT !.pc = "done", !.response = d]]
       \/ sess' = [sess EXCEPT ![p] = Raise(sess[p], "StoreError")]
    /\ UNCHANGED <<settings, committed, nextId, started, mode, ck, call>>

\* get_async_db: the handler has returned or raised; finally: session.close()
\* ends the request task.
CloseSession(p) ==
    /\ sess[p].pc \in {"done", "failed"}
    /\ sess' = [sess EXCEPT ![p] = IdleSess]
    /\ UNCHANGED <<settings, committed, nextId, started, mode, ck, call>>

Ingest(p) ==
    \/ StartIngest(p)
    \/ CdFlush(p)
    \/ AdcEmbed(p)
    \/ AdcCommit(p)
    \/ CdCommit(p)
    \/ CdRefresh(p)

\* ---------------------------------------------------- similarity search

\* WHERE 1 - (embedding <=> q) >= threshold
Passing(chunks, q, threshold) ==
    {c \in chunks : Similarity(c.embedding, q) >= threshold}

MaxScore(S, q) ==
    CHOOSE m \in {Similarity(c.embedding, q) : c \in S} :
        \A c \in S : Similarity(c.embedding, q) <= m

\* The row the store yields first among S.
FirstByDistance(S, q) == {c \in S : Similarity(c.embedding, q) = MaxScore(S, q)}

\* ORDER BY embedding <=> q: every order of the rows by ascending distance
\* (descending similarity); rows at equal distance come in any order.
RECURSIVE OrderedRows(_, _)
OrderedRows(S, q) ==
    IF S = {} THEN {<<>>}
    ELSE UNION {
           {<<[chunk |-> c, score |-> Similarity(c.embedding, q)]>> \o rest :
               rest \in OrderedRows(S \ {c}, q)} :
           c \in FirstByDistance(S, q)}

\* LIMIT top_k  (top_k >= 0; the store rejects a negative LIMIT)
Limit(rows, top_k) == SubSeq(rows, 1, Min(top_k, Len(rows)))

\* The row sequences the SELECT of similarity_search can return.
SqlSearch(chunks, q, top_k, threshold) ==
    {Limit(rows, top_k) : rows \in OrderedRows(Passing(chunks, q, threshold), q)}

\* threshold = similarity_threshold or settings.rag_similarity_threshold
EffectiveThreshold(similarity_threshold) ==
    PyOr(similarity_threshold, rag_similarity_threshold)

\* ------------------------------------------------------------- prompt

SystemMessage == [role |-> "system", content |-> [kind |-> "system_prompt"]]

\* conversation_history[-5:]
HistoryWindow == 5

LastMessagesFirst(history) ==
    SubSeq(history, 1, Min(HistoryWindow, Len(history)))

LastMessages(history) ==
    SubSeq(history, Max(1, Len(history) - HistoryWindow + 1), Len(history))

\* The final user message: the numbered sources and the question, or the
\* question with the no-context note.
UserMessageAlwaysContext(query, context_chunks) ==
    [kind |-> "context",
     sources |-> [i \in 1..Len(context_chunks) |-> context_chunks[i].chunk.chunk_text],
     query |-> query]

UserMessage(query, context_chunks) ==
    IF context_chunks # <<>>
    THEN [kind |-> "context",
          sources |-> [i \in 1..Len(context_chunks) |->
                          context_chunks[i].chunk.chunk_text],
          query |-> query]
    ELSE [kind |-> "no_context", sources |-> <<>>, query |-> query]

\* _build_prompt(query, context_chunks, conversation_history); the history
\* is None or <<list>>.
BuildPrompt(query, context_chunks, conversation_history) ==
    <<SystemMessage>>
    \o (IF conversation_history # None /\ conversation_history[1] # <<>>
        THEN [i \in 1..Len(LastMessages(conversation_history[1])) |->
                 [role |-> LastMessages(conversation_history[1])[i].role,
                  content |-> LastMessages(conversation_history[1])[i].content]]
        ELSE <<>>)
    \o <<[role |-> "user", content |-> UserMessage(query, context_chunks)]>>

\* ---------------------------------------------------------------- query

QueryTexts == {<<1>>, <<3>>}

\* The conversation_id / top_k fields of a RAGQueryRequest.
ConvIdArgs == {None} \cup {Some(i) : i \in -1..MaxRequests}

TopKArgs == {None} \cup {Some(k) : k \in -1..2}

\* create_message: top_k=request.top_k or 5
RouterTopK(req_top_k) == PyOr(req_top_k, DefaultTopK)

\* POST /api/conversation/messages is accepted: RAGService(db).process_query.
\* (include_sources, which the handler reads only when it builds the response,
\* is drawn there.)
StartQuery(p) ==
    /\ CanStart(p)
    /\ \E query \in QueryTexts, cid \in ConvIdArgs, k \in TopKArgs :
          sess' = [sess EXCEPT ![p] =
                     [IdleSess EXCEPT !.op = "query", !.pc = "pq_resolve",
                                      !.query = query, !.conversation_id = cid,
                                      !.top_k = RouterTopK(k)]]
    /\ started' = started + 1
    /\ UNCHANGED <<settings, committed, nextId, mode, ck, call>>

\* Entering similarity_search(query, top_k) from process_query.
EnterSearchSkipRetrieval(s) ==
    [s EXCEPT !.pc = "pq_complete", !.attempt = 1,
              !.messages = BuildPrompt(s.query, <<>>, None)]

EnterSearch(s) ==
    [s EXCEPT !.pc = "ss_embed", !.texts = <<s.query>>, !.attempt = 1,
              !.similarity_threshold = None]

\* if conversation_id:
ConversationIdGiven(conversation_id) == Truthy(conversation_id)

\* _get_or_create_conversation: load the conversation, or add and flush a new
\* one.
PqResolve(p) ==
    /\ sess[p].pc = "pq_resolve"
    /\ LET s == sess[p] IN
       \/ /\ ConversationIdGiven(s.conversation_id)
          /\ s.conversation_id[1] \in committed.convs
          /\ sess' = [sess EXCEPT ![p] =
                        EnterSearch([s EXCEPT !.conv = s.conversation_id[1]])]
          /\ UNCHANGED nextId
       \/ /\ ConversationIdGiven(s.conversation_id)
          /\ s.conversation_id[1] \notin committed.convs
          /\ sess' = [sess EXCEPT ![p] = Raise(s, "NotFound")]
          /\ UNCHANGED nextId
       \/ /\ ~ConversationIdGiven(s.conversation_id)
          /\ sess' = [sess EXCEPT ![p] =
                        [s EXCEPT !.pend.convs = {nextId.conv},
                                  !.conv = nextId.conv, !.created_conv = TRUE,
                                  !.pc = "pq_conv_refresh"]]
          /\ nextId' = [nextId EXCEPT !.conv = @ + 1]
       \/ /\ sess' = [sess EXCEPT ![p] = Raise(s, "StoreError")]
          /\ UNCHANGED nextId
    /\ UNCHANGED <<settings, committed, started, mode, ck, call>>

\* _get_or_create_conversation: await self.db.refresh(conversation, ["messages"])
PqConvRefresh(p) ==
    /\ sess[p].pc = "pq_conv_refresh"
    /\ \/ sess' = [sess EXCEPT ![p] = EnterSearch(sess[p])]
       \/ sess' = [sess EXCEPT ![p] = Raise(sess[p], "StoreError")]
    /\ UNCHANGED <<settings, committed, nextId, started, mode, ck, call>>

\* similarity_search: one attempt of generate_embeddings([query]);
\* query_embedding = query_embeddings[0]
SsEmbed(p) ==
    /\ sess[p].pc = "ss_embed"
    /\ LET s == [sess[p] EXCEPT !.embed_called = TRUE] IN
       \/ \E data \in EmbedResponses(s.texts) :
            /\ EmbeddingsOf(data) # <<>>
            /\ sess' = [sess EXCEPT ![p] =
                   [s EXCEPT !.query_embedding = EmbeddingsOf(data)[1],
                             !.texts = <<>>, !.attempt = 0, !.pc = "ss_query"]]
       \/ \E data \in EmbedResponses(s.texts) :
            /\ EmbeddingsOf(data) = <<>>
            /\ sess' = [sess EXCEPT ![p] = Raise(s, "IndexError")]
       \/ sess' = [sess EXCEPT ![p] = AttemptFails(s)]
    /\ UNCHANGED <<settings, committed, nextId, started, mode, ck, call>>

\* process_query after similarity_search has returned: _build_prompt with no
\* history, then on to generate_chat_completion.
AfterSearchWithHistory(s, rows) ==
    LET stored  == {m \in committed.msgs : m.conversation_id = s.conv}
        history == CHOOSE h \in [1..Cardinality(stored) -> stored] :
                       \A i, j \in 1..Cardinality(stored) :
                           i < j => h[i].id < h[j].id
    IN  [s EXCEPT !.similar_chunks = rows,
                  !.messages = BuildPrompt(s.query, rows, Some(history)),
                  !.attempt = 1, !.pc = "pq_complete"]

AfterSearch(s, rows) ==
    [s EXCEPT !.similar_chunks = rows,
              !.messages = BuildPrompt(s.query, rows, None),
              !.attempt = 1, !.pc = "pq_complete"]

\* similarity_search: the SELECT ... WHERE ... ORDER BY ... LIMIT top_k
SsQuery(p) ==
    /\ sess[p].pc = "ss_query"
    /\ LET s == [sess[p] EXCEPT !.sql_issued = TRUE] IN
       \/ /\ s.top_k >= 0
          /\ \E rows \in SqlSearch(committed.chunks, s.query_embedding, s.top_k,
                                   EffectiveThreshold(s.similarity_threshold)) :
                sess' = [sess EXCEPT ![p] =
                           IF s.op = "query" THEN AfterSearch(s, rows)
                           ELSE [s EXCEPT !.similar_chunks = rows, !.pc = "done"]]
       \/ /\ s.top_k < 0
          /\ sess' = [sess EXCEPT ![p] = Raise(s, "StoreError")]
       \/ sess' = [sess EXCEPT ![p] = Raise(s, "StoreError")]
    /\ UNCHANGED <<settings, committed, nextId, started, mode, ck, call>>

\* The two Message objects process_query adds, in the order it adds them.
NewMessagesSwapped(conv, query, llm_response, similar_chunks) ==
    <<[id |-> 0, conversation_id |-> conv, role |-> "assistant",
       content |-> llm_response.content, sources_count |-> Len(similar_chunks)],
      [id |-> 0, conversation_id |-> conv, role |-> "user", content |-> query,
       sources_count |-> 0]>>

NewMessages(conv, query, llm_response, similar_chunks) ==
    <<[id |-> 0, conversation_id |-> conv, role |-> "user", content |-> query,
       sources_count |-> 0],
      [id |-> 0, conversation_id |-> conv, role |-> "assistant",
       content |-> llm_response.content, sources_count |-> Len(similar_chunks)]>>

\* One attempt of generate_chat_completion(messages); on a response the user
\* and the assistant message are added to the session.
PqComplete(p) ==
    /\ sess[p].pc = "pq_complete"
    /\ LET s == [sess[p] EXCEPT !.completion_called = TRUE] IN
       \/ LET r == CompletionOf(s.messages)
          IN  sess' = [sess EXCEPT ![p] =
                 [s EXCEPT !.llm_response = r,
                           !.pend.msgs = NewMessages(s.conv, s.query, r, s.similar_chunks),
                           !.attempt = 0, !.pc = "pq_commit"]]
       \/ sess' = [sess EXCEPT ![p] = AttemptFails(s)]
    /\ UNCHANGED <<settings, committed, nextId, started, mode, ck, call>>

\* process_query: await self.db.commit()
PqCommit(p) ==
    /\ sess[p].pc = "pq_commit"
    /\ \/ /\ committed' = CommitRows(committed, sess[p].pend, nextId)
          /\ nextId' = IdsAfterCommit(sess[p].pend, nextId)
          /\ sess' = [sess EXCEPT ![p] =
                        [sess[p] EXCEPT !.pend = EmptyPend,
                                        !.message_id = nextId.msg + Len(sess[p].pend.msgs) - 1,
                                        !.pc = "pq_refresh"]]
       \/ /\ sess' = [sess EXCEPT ![p] = Raise(sess[p], "StoreError")]
          /\ UNCHANGED <<committed, nextId>>
    /\ UNCHANGED <<settings, started, mode, ck, call>>

\* sources = [SourceDocument(...) for chunk, score in similar_chunks]
SourcesOfAlways(include_sources, similar_chunks) ==
    [i \in 1..Len(similar_chunks) |->
        [document_id |-> similar_chunks[i].chunk.document_id,
         chunk_id |-> similar_chunks[i].chunk.id,
         content |-> similar_chunks[i].chunk.chunk_text,
         similarity_score |-> similar_chunks[i].score]]

SourcesOf(include_sources, similar_chunks) ==
    IF include_sources
    THEN [i \in 1..Len(similar_chunks) |->
             [document_id |-> similar_chunks[i].chunk.document_id,
              chunk_id |-> similar_chunks[i].chunk.id,
              content |-> similar_chunks[i].chunk.chunk_text,
              similarity_score |-> similar_chunks[i].score]]
    ELSE <<>>

\* process_query: await self.db.refresh(assistant_message); build and return
\* the RAGQueryResponse.
PqRefresh(p) ==
    /\ sess[p].pc = "pq_refresh"
    /\ LET s == sess[p] IN
       \/ /\ \E m \in committed.msgs : m.id = s.message_id
          /\ \E inc \in BOOLEAN :
             sess' = [sess EXCEPT ![p] =
                [s EXCEPT !.pc = "done", !.include_sources = inc,
                          !.response =
                              [conversation_id |-> s.conv,
                               message_id |-> s.message_id,
                               query |-> s.query,
                               response |-> s.llm_response.content,
                               sources |-> SourcesOf(inc, s.similar_chunks),
                               retrieved_chunks |-> Len(s.similar_chunks)]]]
       \/ sess' = [sess EXCEPT ![p] = Raise(s, "StoreError")]
    /\ UNCHANGED <<settings, committed, nextId, started, mode, ck, call>>

\* A direct call of VectorService.similarity_search(query, top_k,
\* similarity_threshold) on a session of its own.
SearchTopKs == -1..3

ThresholdArgs == {None} \cup {Some(t) : t \in -1..(ScoreScale + 1)}

StartSearch(p) ==
    /\ CanStart(p)
    /\ \E query \in QueryTexts, k \in SearchTopKs, t \in ThresholdArgs :
          sess' = [sess EXCEPT ![p] =
                     [IdleSess EXCEPT !.op = "search", !.pc = "ss_embed",
                                      !.query = query, !.texts = <<query>>,
                                      !.attempt = 1, !.top_k = k,
                                      !.similarity_threshold = t]]
    /\ started' = started + 1
    /\ UNCHANGED <<settings, committed, nextId, mode, ck, call>>

Query(p) ==
    \/ StartQuery(p)
    \/ PqResolve(p)
    \/ PqConvRefresh(p)
    \/ SsEmbed(p)
    \/ SsQuery(p)
    \/ PqComplete(p)
    \/ PqCommit(p)
    \/ PqRefresh(p)

\* ----------------------------------------------------------------- Spec

\* No helper call is being followed.
CallIdle == [fn |-> "none", pc |-> "idle"]

ChunkIdle == [pc |-> "idle", text |-> <<>>, start |-> 0, chunks |-> <<>>, iters |-> 0]

\* The service after startup: empty tables, fresh sequences, no request in
\* flight.  The chunker configuration is one for which _chunk_text ends.
Init ==
    /\ settings \in ValidConfigs
    /\ committed = EmptyTables
    /\ nextId = [doc |-> 1, chunk |-> 1, conv |-> 1, msg |-> 1]
    /\ sess = [p \in Procs |-> IdleSess]
    /\ started = 0
    /\ mode = "serial"
    /\ ck = ChunkIdle
    /\ call = CallIdle

Next == \E p \in Procs : Ingest(p) \/ Query(p) \/ CloseSession(p)

Spec == Init /\ [][Next]_vars

\* The vector store adapter on its own: documents are ingested and
\* similarity_search is called directly, with any top_k and threshold.
SearchNext ==
    \E p \in Procs :
        \/ Ingest(p)
        \/ StartSearch(p)
        \/ SsEmbed(p)
        \/ SsQuery(p)
        \/ CloseSession(p)

SpecSearch == Init /\ [][SearchNext]_vars

\* ------------------------------------------- the chunker, step by step

\* The loop run one iteration at a time.  ck.iters counts the iterations and
\* caps the runs that never end (overlap >= size).
MaxIters == MaxTextLen + 2

ChunkInit ==
    /\ settings \in Configs
    /\ committed = EmptyTables
    /\ nextId = [doc |-> 1, chunk |-> 1, conv |-> 1, msg |-> 1]
    /\ sess = [p \in Procs |-> IdleSess]
    /\ started = 0
    /\ mode = "serial"
    /\ \E t \in Texts :
          ck = [pc |-> "loop", text |-> t, start |-> 0, chunks |-> <<>>,
                iters |-> 0]
    /\ call = CallIdle

ChunkStep ==
    /\ ck.pc = "loop"
    /\ ck.start < Len(ck.text)
    /\ ck.iters < MaxIters
    /\ LET st == ChunkBody(settings, ck.text, [start |-> ck.start, chunks |-> ck.chunks])
       IN  ck' = [ck EXCEPT !.start = st.start, !.chunks = st.chunks,
                            !.iters = @ + 1]
    /\ UNCHANGED <<settings, committed, nextId, sess, started, mode, call>>

ChunkReturn ==
    /\ ck.pc = "loop"
    /\ ~(ck.start < Len(ck.text))
    /\ ck' = [ck EXCEPT !.pc = "done"]
    /\ UNCHANGED <<settings, committed, nextId, sess, started, mode, call>>

ChunkNext == ChunkStep \/ ChunkReturn

SpecChunk == ChunkInit /\ [][ChunkNext]_vars /\ WF_vars(ChunkNext)

\* ------------------------------------- the completion request's shape

\* str.startswith
StartsWith(s, prefix) ==
    Len(s) >= Len(prefix) /\ SubSeq(s, 1, Len(prefix)) = prefix

Gpt5Prefix == <<"g", "p", "t", "-", "5">>

\* Values of Settings.openai_model, as character sequences.
ModelIds ==
    {<<"g", "p", "t", "-", "5">>,
     <<"g", "p", "t", "-", "5", "-", "n", "a", "n", "o">>,
     <<"g", "p", "t", "-", "5", "0">>,
     <<"g", "p", "t", "-", "4", "o">>,
     <<"g", "p", "t", "-", "4">>,
     <<"G", "P", "T", "-", "5">>,
     <<"x", "-", "g", "p", "t", "-", "5">>,
     <<"g", "p", "t">>,
     <<>>}

\* Settings.llm_temperature (in tenths) and Settings.llm_max_tokens.
LlmTemperatures == {0, 7}
LlmMaxTokens == {2048}

\* The temperature / max_tokens arguments of generate_chat_completion.
TemperatureArgs == {None, Some(0), Some(3), Some(10)}
MaxTokensArgs == {None, Some(0), Some(5)}

\* completion_params as generate_chat_completion builds it, without the
\* messages: a function from parameter names to values.
CompletionParamsLegacy(self, temperature, max_tokens) ==
    [k \in {"model", "max_tokens", "temperature"} |->
        CASE k = "model" -> self.model
          [] k = "max_tokens" -> PyOr(max_tokens, self.max_tokens)
          [] k = "temperature" -> PyOr(temperature, self.temperature)]

CompletionParams(self, temperature, max_tokens) ==
    IF StartsWith(self.model, Gpt5Prefix)
    THEN [k \in {"model", "max_completion_tokens"} |->
            CASE k = "model" -> self.model
              [] k = "max_completion_tokens" -> PyOr(max_tokens, self.max_tokens)]
    ELSE [k \in {"model", "max_tokens", "temperature"} |->
            CASE k = "model" -> self.model
              [] k = "max_tokens" -> PyOr(max_tokens, self.max_tokens)
              [] k = "temperature" -> PyOr(temperature, self.temperature)]

\* LLMService() under some configuration, and one generate_chat_completion
\* call with some arguments.
ParamsInit ==
    /\ settings \in ValidConfigs
    /\ committed = EmptyTables
    /\ nextId = [doc |-> 1, chunk |-> 1, conv |-> 1, msg |-> 1]
    /\ sess = [p \in Procs |-> IdleSess]
    /\ started = 0
    /\ mode = "serial"
    /\ ck = ChunkIdle
    /\ \E m \in ModelIds, st \in LlmTemperatures, sm \in LlmMaxTokens,
          t \in TemperatureArgs, mt \in MaxTokensArgs :
          call = [fn |-> "generate_chat_completion", pc |-> "args",
                  self |-> [model |-> m, temperature |-> st, max_tokens |-> sm],
                  temperature |-> t, max_tokens |-> mt, params |-> <<>>]

\* The call builds completion_params and sends the request.
GccRequest ==
    /\ call.fn = "generate_chat_completion"
    /\ call.pc = "args"
    /\ call' = [call EXCEPT !.pc = "request",
                            !.params = CompletionParams(call.self, call.temperature,
                                                        call.max_tokens)]
    /\ UNCHANGED <<settings, committed, nextId, sess, started, mode, ck>>

ParamsNext == GccRequest

SpecParams == ParamsInit /\ [][ParamsNext]_vars

\* ------------------------------------------- the prompt builder alone

MaxHistory == 7

\* A stored Message as _build_prompt reads it: role, content, and the other
\* columns (here the id), which the prompt must not carry.
StoredMessage(i, role) ==
    [id |-> i, role |-> role, content |-> [kind |-> "stored", text |-> i]]

\* Conversation histories: None, the empty list, and lists of up to
\* MaxHistory messages, user and assistant in turn, the oldest one possibly a
\* stored system message.
Histories ==
    {None, Some(<<>>)}
    \cup {Some([i \in 1..n |->
                  StoredMessage(i, IF i = 1 THEN first
                                   ELSE IF i % 2 = 0 THEN "assistant" ELSE "user")]) :
            n \in 1..MaxHistory, first \in {"user", "system"}}

\* Retrieved (chunk, score) sequences.
ContextChunks ==
    {<<>>,
     <<[chunk |-> [id |-> 1, document_id |-> 1, chunk_text |-> <<1>>,
                   chunk_index |-> 0, embedding |-> 1],
        score |-> ScoreScale]>>}

PromptInit ==
    /\ settings \in ValidConfigs
    /\ committed = EmptyTables
    /\ nextId = [doc |-> 1, chunk |-> 1, conv |-> 1, msg |-> 1]
    /\ sess = [p \in Procs |-> IdleSess]
    /\ started = 0
    /\ mode = "serial"
    /\ ck = ChunkIdle
    /\ \E q \in QueryTexts, cs \in ContextChunks, h \in Histories :
          call = [fn |-> "_build_prompt", pc |-> "args", query |-> q,
                  context_chunks |-> cs, conversation_history |-> h,
                  messages |-> <<>>]

\* _build_prompt runs and returns its messages.
BpReturn ==
    /\ call.fn = "_build_prompt"
    /\ call.pc = "args"
    /\ call' = [call EXCEPT !.pc = "done",
                            !.messages = BuildPrompt(call.query, call.context_chunks,
                                                     call.conversation_history)]
    /\ UNCHANGED <<settings, committed, nextId, sess, started, mode, ck>>

PromptNext == BpReturn

SpecPrompt == PromptInit /\ [][PromptNext]_vars

\* ------------------------------------------------------ health check

\* db_status / openai_status: "healthy", or f"unhealthy: {str(e)}".
Unhealthy(e) ==
    IF e = "StoreError" THEN "unhealthy: StoreError"
    ELSE "unhealthy: ProviderError"

\* overall_status = "healthy" if db_status == "healthy" and
\*                  openai_status == "healthy" else "degraded"
OverallStatusEither(db_status, openai_status) ==
    IF db_status = "healthy" \/ openai_status = "healthy"
    THEN "healthy" ELSE "degraded"

OverallStatus(db_status, openai_status) ==
    IF db_status = "healthy" /\ openai_status = "healthy"
    THEN "healthy" ELSE "degraded"

\* return HealthResponse(status=..., database=..., openai=...)
HealthResponse(db_status, openai_status) ==
    [status |-> OverallStatus(db_status, openai_status),
     database |-> db_status, openai |-> openai_status]

\* GET /health is accepted.
StartHealth(p) ==
    /\ CanStart(p)
    /\ sess' = [sess EXCEPT ![p] =
                  [IdleSess EXCEPT !.op = "health", !.pc = "hc_db"]]
    /\ started' = started + 1
    /\ UNCHANGED <<settings, committed, nextId, mode, ck, call>>

\* await db.execute(text("SELECT 1")), inside try/except: db_status is set,
\* and the handler goes on to the provider check either way.
HcDb(p) ==
    /\ sess[p].pc = "hc_db"
    /\ \/ sess' = [sess EXCEPT ![p] =
                     [sess[p] EXCEPT !.sql_issued = TRUE,
                                     !.response = [database |-> "healthy"],
                                     !.attempt = 1, !.pc = "hc_openai"]]
       \/ sess' = [sess EXCEPT ![p] =
                     [sess[p] EXCEPT !.sql_issued = TRUE,
                                     !.failed_at = "hc_db",
                                     !.response = [database |-> Unhealthy("StoreError")],
                                     !.attempt = 1, !.pc = "hc_openai"]]
    /\ UNCHANGED <<settings, committed, nextId, started, mode, ck, call>>

\* One attempt of test_connection's generate_chat_completion, inside
\* try/except; when it answers, or when the third attempt has failed,
\* openai_status is set and the response is returned.
HcOpenai(p) ==
    /\ sess[p].pc = "hc_openai"
    /\ LET s == [sess[p] EXCEPT !.completion_called = TRUE] IN
       \/ sess' = [sess EXCEPT ![p] =
                     [s EXCEPT !.attempt = 0, !.pc = "done",
                               !.response = HealthResponse(s.response.database,
                                                           "healthy")]]
       \/ /\ s.attempt < MaxAttempts
          /\ sess' = [sess EXCEPT ![p] = [s EXCEPT !.attempt = @ + 1]]
       \/ /\ s.attempt = MaxAttempts
          /\ sess' = [sess EXCEPT ![p] =
                        [s EXCEPT !.attempt = 0, !.pc = "done",
                                  !.error = "ProviderError",
                                  !.response =
                                      HealthResponse(s.response.database,
                                                     Unhealthy("ProviderError"))]]
    /\ UNCHANGED <<settings, committed, nextId, started, mode, ck, call>>

Health(p) ==
    \/ StartHealth(p)
    \/ HcDb(p)
    \/ HcOpenai(p)

\* ------------------------------------------------- get and delete

\* The document_id arguments of get_document / delete_document.
DocIdArgs == 0..MaxRequests

\* select(Document).where(Document.id == document_id)
SelectDocumentAny(tables, document_id) == tables.docs

SelectDocument(tables, document_id) ==
    {d \in tables.docs : d.id = document_id}

\* DELETE of a document row at commit: the ORM cascade (all, delete-orphan)
\* and the foreign key's ON DELETE CASCADE remove its chunks with it.
DeleteRowsNoCascade(tables, document_id) ==
    [tables EXCEPT !.docs = {d \in @ : d.id # document_id}]

DeleteRows(tables, document_id) ==
    [tables EXCEPT !.docs = {d \in @ : d.id # document_id},
                   !.chunks = {c \in @ : c.document_id # document_id}]

\* DocumentService(db).get_document(document_id) is called.
StartGet(p) ==
    /\ CanStart(p)
    /\ \E id \in DocIdArgs :
          sess' = [sess EXCEPT ![p] =
                     [IdleSess EXCEPT !.op = "get", !.pc = "gd_select",
                                      !.document_id = id]]
    /\ started' = started + 1
    /\ UNCHANGED <<settings, committed, nextId, mode, ck, call>>

\* get_document: the SELECT; the document or None is returned; an error is
\* logged and re-raised (there is no rollback here).
GdSelect(p) ==
    /\ sess[p].pc = "gd_select"
    /\ LET s     == [sess[p] EXCEPT !.sql_issued = TRUE]
           found == SelectDocument(committed, s.document_id)
       IN  \/ \E d \in found :
                sess' = [sess EXCEPT ![p] =
                           [s EXCEPT !.pc = "done", !.response = Some(d)]]
           \/ /\ found = {}
              /\ sess' = [sess EXCEPT ![p] =
                            [s EXCEPT !.pc = "done", !.response = None]]
           \/ sess' = [sess EXCEPT ![p] = Failed(s, "StoreError")]
    /\ UNCHANGED <<settings, committed, nextId, started, mode, ck, call>>

GetDocument(p) ==
    \/ StartGet(p)
    \/ GdSelect(p)

\* DocumentService(db).delete_document(document_id) is called.
StartDelete(p) ==
    /\ CanStart(p)
    /\ \E id \in DocIdArgs :
          sess' = [sess EXCEPT ![p] =
                     [IdleSess EXCEPT !.op = "delete", !.pc = "dd_select",
                                      !.document_id = id]]
    /\ started' = started + 1
    /\ UNCHANGED <<settings, committed, nextId, mode, ck, call>>

\* delete_document: the SELECT; return False when there is no such document.
DdSelect(p) ==
    /\ sess[p].pc = "dd_select"
    /\ LET s     == [sess[p] EXCEPT !.sql_issued = TRUE]
           found == SelectDocument(committed, s.document_id)
       IN  \/ /\ found # {}
              /\ sess' = [sess EXCEPT ![p] = [s EXCEPT !.pc = "dd_commit"]]
           \/ /\ found = {}
              /\ sess' = [sess EXCEPT ![p] =
                            [s EXCEPT !.pc = "done",
                                      !.response = [deleted |-> FALSE]]]
           \/ sess' = [sess EXCEPT ![p] = Raise(s, "StoreError")]
    /\ UNCHANGED <<settings, committed, nextId, started, mode, ck, call>>

\* delete_document: await self.db.delete(document); await self.db.commit();
\* return True
DdCommit(p) ==
    /\ sess[p].pc = "dd_commit"
    /\ \/ /\ committed' = DeleteRows(committed, sess[p].document_id)
          /\ sess' = [sess EXCEPT ![p] =
                        [sess[p] EXCEPT !.pc = "done",
                                        !.response = [deleted |-> TRUE]]]
       \/ /\ sess' = [sess EXCEPT ![p] = Raise(sess[p], "StoreError")]
          /\ UNCHANGED committed
    /\ UNCHANGED <<settings, nextId, started, mode, ck, call>>

DeleteDocument(p) ==
    \/ StartDelete(p)
    \/ DdSelect(p)
    \/ DdCommit(p)

\* The document endpoints and the health endpoint: ingests, reads, deletes
\* and health checks, one request at a time.
DocsNext ==
    \E p \in Procs :
        \/ Ingest(p)
        \/ GetDocument(p)
        \/ DeleteDocument(p)
        \/ Health(p)
        \/ CloseSession(p)

SpecDocs == Init /\ [][DocsNext]_vars

\* ------------------------------------------------- concurrent queries

\* A store in which one earlier query has created conversation 1 and
\* committed its pair; request tasks now run interleaved.
ConcInit ==
    /\ settings \in {cfg \in ValidConfigs : cfg.chunk_size = 1}
    /\ committed =
          [EmptyTables EXCEPT
              !.convs = {1},
              !.msgs = WithIds(NewMessages(1, <<1>>, CompletionOf(<<>>), <<>>), 1)]
    /\ nextId = [doc |-> 1, chunk |-> 1, conv |-> 2, msg |-> 3]
    /\ sess = [p \in Procs |-> IdleSess]
    /\ started = 0
    /\ mode = "concurrent"
    /\ ck = ChunkIdle
    /\ call = CallIdle

\* The requests of the interleaved runs: a query on conversation 1 or on no
\* conversation, top_k left to the router's default.
ConcStartQuery(p) ==
    /\ CanStart(p)
    /\ \E query \in QueryTexts, cid \in {None, Some(1)} :
          sess' = [sess EXCEPT ![p] =
                     [IdleSess EXCEPT !.op = "query", !.pc = "pq_resolve",
                                      !.query = query, !.conversation_id = cid,
                                      !.top_k = RouterTopK(None)]]
    /\ started' = started + 1
    /\ UNCHANGED <<settings, committed, nextId, mode, ck, call>>

ConcNext ==
    \E p \in Procs :
        \/ ConcStartQuery(p)
        \/ PqResolve(p)
        \/ PqConvRefresh(p)
        \/ SsEmbed(p)
        \/ SsQuery(p)
        \/ PqComplete(p)
        \/ PqCommit(p)
        \/ PqRefresh(p)
        \/ CloseSession(p)

SpecConc == ConcInit /\ [][ConcNext]_vars

\* --------------------------------------------------------- cancellation

\* The steps at which a request awaits store or provider I/O.
SuspensionPcs ==
    {"cd_flush", "adc_embed", "adc_commit", "cd_commit", "cd_refresh",
     "pq_resolve", "pq_conv_refresh", "ss_embed", "ss_query", "pq_complete",
     "pq_commit", "pq_refresh"}

\* The request task is cancelled while it awaits: CancelledError is raised
\* at the await; the handlers' "except Exception" clauses do not catch it (it
\* is a BaseException), and get_async_db's finally closes the session, which
\* discards the open transaction.  The await that was cancelled has had no
\* effect.
Cancel(p) ==
    /\ sess[p].pc \in SuspensionPcs
    /\ sess' = [sess EXCEPT ![p] = Failed(Rollback(sess[p]), "CancelledError")]
    /\ UNCHANGED <<settings, committed, nextId, started, mode, ck, call>>

\* Ingests and queries, one request at a time, any of which may be cancelled.
CancelNext ==
    \E p \in Procs :
        \/ Ingest(p)
        \/ Query(p)
        \/ Cancel(p)
        \/ CloseSession(p)

SpecCancel == Init /\ [][CancelNext]_vars

\* ------------------------------------------------------------- claims

DocIds(tables) == {d.id : d \in tables.docs}

ChunksOf(tables, document_id) ==
    {c \in tables.chunks : c.document_id = document_id}

MessagesOf(tables, conv) == {m \in tables.msgs : m.conversation_id = conv}

\* C1: ingest is all-or-nothing.  A create_document call that ended by
\* raising left neither its document row nor any of its chunks committed; one
\* that returned left the document and all the chunks it built committed; and
\* at no moment is the document committed while chunks are still pending.
C1_IngestAllOrNothing ==
    \A p \in Procs :
        sess[p].op = "ingest" =>
            /\ sess[p].pc = "failed" =>
                  /\ sess[p].document_id \notin DocIds(committed)
                  /\ ChunksOf(committed, sess[p].document_id) = {}
            /\ sess[p].pc = "done" =>
                  /\ sess[p].document_id \in DocIds(committed)
            /\ sess[p].document_id \in DocIds(committed) =>
                  sess[p].pend = EmptyPend

\* C2: an ingest whose embedding call fails ends only after the third failed
\* attempt, with the provider's error; then no chunk of the document and no
\* document row is committed, and nothing is left in the open transaction.
C2_OutageInv ==
    \A p \in Procs :
        (sess[p].op = "ingest" /\ sess[p].pc = "failed"
            /\ sess[p].failed_at = "adc_embed") =>
            /\ sess[p].error = "ProviderError"
            /\ sess[p].document_id \notin DocIds(committed)
            /\ ChunksOf(committed, sess[p].document_id) = {}
            /\ sess[p].pend = EmptyPend

C2_ProviderOutageRollsBack ==
    /\ []C2_OutageInv
    /\ [][\A p \in Procs :
            (sess[p].op = "ingest" /\ sess[p].pc = "adc_embed") =>
                /\ sess'[p].pc = "failed" => sess[p].attempt = MaxAttempts
                /\ sess[p].attempt = MaxAttempts =>
                      sess'[p].pc \in {"adc_embed", "adc_commit", "failed"}
                /\ (sess[p].attempt = MaxAttempts /\ sess'[p] # sess[p]) =>
                      sess'[p].pc \in {"adc_commit", "failed"}]_vars

C2_Witness ==
    \E p \in Procs :
        /\ sess[p].op = "ingest" /\ sess[p].pc = "failed"
        /\ sess[p].failed_at = "adc_embed" /\ sess[p].error = "ProviderError"
        /\ sess[p].document_id > 0
        /\ committed.docs # {}

\* C3: every committed document whose content the chunker splits into N
\* chunks has exactly N stored chunks, with chunk_index 0..N-1 in chunk
\* order, whatever number of vectors the provider returned.
C3_ChunkIndexContiguous ==
    \A d \in committed.docs :
        LET chunks == ChunkText(settings, d.content)
            stored == ChunksOf(committed, d.id)
        IN  /\ Cardinality(stored) = Len(chunks)
            /\ {c.chunk_index : c \in stored} = 0..(Len(chunks) - 1)
            /\ \A c \in stored : c.chunk_text = chunks[c.chunk_index + 1]

\* C4: the commit of a process_query adds to the table exactly one user
\* message (the raw query) and, right after it, one assistant message (the
\* generated content), both of the request's conversation, in one step; no
\* other step adds or removes a message; so every committed user message has
\* its assistant message and the reverse, and a conversation the request
\* created holds exactly these two.
C4_PairInv ==
    /\ \A m \in committed.msgs :
          /\ m.conversation_id \in committed.convs
          /\ m.role = "user" =>
                \E a \in committed.msgs :
                    /\ a.id = m.id + 1 /\ a.role = "assistant"
                    /\ a.conversation_id = m.conversation_id
          /\ m.role = "assistant" =>
                \E u \in committed.msgs :
                    /\ u.id = m.id - 1 /\ u.role = "user"
                    /\ u.conversation_id = m.conversation_id
    /\ \A p \in Procs :
          (sess[p].op = "query" /\ sess[p].pc = "done") =>
              /\ \E u, a \in MessagesOf(committed, sess[p].conv) :
                    /\ a.id = sess[p].response.message_id
                    /\ u.id = a.id - 1
                    /\ u.role = "user" /\ u.content = sess[p].query
                    /\ a.role = "assistant" /\ a.content = AnswerText
              /\ sess[p].created_conv =>
                    Cardinality(MessagesOf(committed, sess[p].conv)) = 2

C4_QueryAppendsPair ==
    /\ []C4_PairInv
    /\ [][LET new == committed'.msgs \ committed.msgs
          IN  /\ committed.msgs \subseteq committed'.msgs
              /\ IF \E p \in Procs : /\ sess[p].pc = "pq_commit"
                                     /\ sess'[p].pc = "pq_refresh"
                 THEN \E p \in Procs :
                        /\ sess[p].pc = "pq_commit"
                        /\ sess'[p].pc = "pq_refresh"
                        /\ sess[p].conv \in committed'.convs
                        /\ \E u, a \in new :
                              /\ new = {u, a}
                              /\ a.id = u.id + 1
                              /\ u.role = "user" /\ u.content = sess[p].query
                              /\ a.role = "assistant"
                              /\ a.content = sess[p].llm_response.content
                              /\ u.conversation_id = sess[p].conv
                              /\ a.conversation_id = sess[p].conv
                 ELSE new = {}]_vars

C4_Witness ==
    \E p \in Procs :
        /\ sess[p].op = "query" /\ sess[p].pc = "done"
        /\ ~sess[p].created_conv
        /\ Cardinality(MessagesOf(committed, sess[p].conv)) = 4

\* C5: a process_query that ended by raising, at whatever step, has committed
\* nothing: not the conversation it created, not its user message, not its
\* assistant message.
C5_FailedQueryCommitsNothing ==
    \A p \in Procs :
        (sess[p].op = "query" /\ sess[p].pc = "failed") =>
            /\ sess[p].created_conv => sess[p].conv \notin committed.convs
            /\ \A m \in committed.msgs :
                  m.id \notin {sess[p].message_id, sess[p].message_id - 1}

\* C6: a query whose supplied conversation_id (any integer) names no existing
\* conversation fails in the lookup, having created no conversation, called
\* no provider and committed no message.
C6_UnknownConversationRejected ==
    \A p \in Procs :
        (/\ sess[p].op = "query"
         /\ sess[p].conversation_id # None
         /\ sess[p].conversation_id[1] \notin committed.convs
         /\ sess[p].pc # "pq_resolve") =>
            /\ sess[p].pc = "failed"
            /\ sess[p].failed_at = "pq_resolve"
            /\ sess[p].error \in {"NotFound", "StoreError"}
            /\ ~sess[p].created_conv
            /\ ~sess[p].embed_called
            /\ ~sess[p].completion_called
            /\ sess[p].message_id = 0

\* C7: a similarity_search call that returns, given a threshold, returns the
\* top_k best of the stored chunks that pass that threshold: every score is
\* >= threshold, there are at most top_k rows, scores do not increase, no
\* passing chunk left out beats a returned one, and none is left out while
\* fewer than top_k are returned.
C7_TopKBest ==
    \A p \in Procs :
        (/\ sess[p].op = "search" /\ sess[p].pc = "done"
         /\ sess[p].similarity_threshold # None) =>
            LET thr  == sess[p].similarity_threshold[1]
                q    == sess[p].query_embedding
                res  == sess[p].similar_chunks
                pass == {c \in committed.chunks : Similarity(c.embedding, q) >= thr}
                out  == pass \ {res[i].chunk : i \in 1..Len(res)}
            IN  /\ \A i \in 1..Len(res) :
                      /\ res[i].chunk \in committed.chunks
                      /\ res[i].score = Similarity(res[i].chunk.embedding, q)
                      /\ res[i].score >= thr
                /\ Len(res) <= sess[p].top_k
                /\ \A i, j \in 1..Len(res) : i < j => res[i].score >= res[j].score
                /\ \A c \in out : \A i \in 1..Len(res) :
                      Similarity(c.embedding, q) <= res[i].score
                /\ Len(res) = Min(sess[p].top_k, Cardinality(pass))

\* C8: a similarity_search with top_k < 1 or a threshold outside [0, 1] is
\* rejected before the store is queried: no SELECT is issued for it and the
\* call goes no further.
InvalidSearchArgs(s) ==
    \/ s.top_k < 1
    \/ /\ s.similarity_threshold # None
       /\ \/ s.similarity_threshold[1] < 0
          \/ s.similarity_threshold[1] > ScoreScale

C8_SearchValidatesParameters ==
    \A p \in Procs :
        (sess[p].op \in {"query", "search"} /\ InvalidSearchArgs(sess[p])) =>
            /\ ~sess[p].sql_issued
            /\ sess[p].pc \notin {"pq_complete", "pq_commit", "pq_refresh", "done"}

\* C9: when no stored chunk meets the threshold the search returns the empty
\* sequence and the query goes on: the prompt is the system message plus the
\* no-context user message, the completion provider is called, the two
\* messages are stored with sources_count 0, and the response carries no
\* source.
NoContextPrompt(query) ==
    <<SystemMessage,
      [role |-> "user",
       content |-> [kind |-> "no_context", sources |-> <<>>, query |-> query]]>>

C9_NoContextInv ==
    \A p \in Procs :
        LET s == sess[p] IN
        s.op = "query" =>
            /\ (/\ s.pc = "ss_query" /\ s.top_k >= 0
                /\ Passing(committed.chunks, s.query_embedding,
                           rag_similarity_threshold) = {}) =>
                  ENABLED (SsQuery(p) /\ sess'[p].pc = "pq_complete"
                                      /\ sess'[p].similar_chunks = <<>>)
            /\ (s.pc \in {"pq_complete", "pq_commit", "pq_refresh", "done"}
                /\ s.similar_chunks = <<>>) =>
                  s.messages = NoContextPrompt(s.query)
            /\ (s.pc \in {"pq_commit", "pq_refresh", "done"}
                /\ s.similar_chunks = <<>>) =>
                  /\ s.completion_called
                  /\ s.llm_response = CompletionOf(NoContextPrompt(s.query))
            /\ (s.pc = "pq_commit" /\ s.similar_chunks = <<>>) =>
                  /\ Len(s.pend.msgs) = 2
                  /\ s.pend.msgs[2].sources_count = 0
            /\ (s.pc = "done" /\ s.similar_chunks = <<>>) =>
                  /\ s.response.sources = <<>>
                  /\ s.response.retrieved_chunks = 0
                  /\ \E u, a \in MessagesOf(committed, s.conv) :
                        /\ a.id = s.response.message_id /\ u.id = a.id - 1
                        /\ u.role = "user" /\ u.content = s.query
                        /\ a.role = "assistant" /\ a.sources_count = 0

C9_NoContextProceeds ==
    /\ []C9_NoContextInv
    /\ [][\A p \in Procs :
            (/\ sess[p].op = "query" /\ sess[p].pc = "ss_query"
             /\ sess'[p].pc \notin {"ss_query", "failed"}
             /\ Passing(committed.chunks, sess[p].query_embedding,
                        rag_similarity_threshold) = {}) =>
                /\ sess'[p].pc = "pq_complete"
                /\ sess'[p].similar_chunks = <<>>]_vars

C9_Witness ==
    \E p \in Procs :
        /\ sess[p].op = "query" /\ sess[p].pc = "done"
        /\ sess[p].top_k > 0
        /\ committed.chunks # {}
        /\ sess[p].similar_chunks = <<>>
        /\ sess[p].response.sources = <<>>

\* C10: with size > 0 and 0 <= overlap < size the chunking loop ends: every
\* iteration moves start forward by exactly size - overlap (> 0), and the loop
\* leaves once start >= len(text).
C10_LoopTerminates ==
    /\ [][(ValidConfig(settings) /\ ck.pc = "loop" /\ ck'.pc = "loop")
            => /\ ck'.start = ck.start + settings.chunk_size - settings.chunk_overlap
               /\ ck'.start > ck.start]_vars
    /\ [][(ck.pc = "loop" /\ ck'.pc = "done") => ck.start >= Len(ck.text)]_vars
    /\ (ValidConfig(settings) => <>(ck.pc = "done"))

C10_Witness ==
    /\ ValidConfig(settings)
    /\ ck.pc = "done"
    /\ ck.iters >= 2
    /\ ck.start >= Len(ck.text)

\* C11: under a configuration with chunk_overlap >= chunk_size, a _chunk_text
\* call on a non-empty text is rejected: it never returns a chunk list, and it
\* never goes round its loop without moving start forward (the way a loop
\* over a fixed text runs without end).
C11_OverlapRejected ==
    /\ []((~ValidConfig(settings) /\ ck.text # <<>>) => ck.pc # "done")
    /\ [][(/\ ~ValidConfig(settings) /\ ck.text # <<>>
           /\ ck.pc = "loop" /\ ck'.pc = "loop"
           /\ ck'.iters = ck.iters + 1) => ck'.start > ck.start]_vars

\* The character positions a chunk holds (a text is its own positions).
Positions(chunk) == {chunk[i] : i \in 1..Len(chunk)}

\* C12: for a non-empty text and a valid (size, overlap) the chunks returned
\* cover the text: every position lies in a chunk; chunk k (from 0) is the
\* window of the text that starts at k * (size - overlap); consecutive chunks
\* share exactly overlap positions (the pair ending in the last chunk apart);
\* and a window that is not emitted has length <= overlap and holds only
\* positions the chunks emitted before it already hold.
C12_CoverInv ==
    (ValidConfig(settings) /\ ck.pc = "done" /\ ck.text # <<>>) =>
        LET size    == settings.chunk_size
            overlap == settings.chunk_overlap
            n       == Len(ck.chunks)
        IN  /\ ck.chunks = ChunkText(settings, ck.text)
            /\ \A pos \in 1..Len(ck.text) :
                  \E k \in 1..n : pos \in Positions(ck.chunks[k])
            /\ \A k \in 1..n :
                  LET from == (k - 1) * (size - overlap)
                  IN  /\ ck.chunks[k] # <<>>
                      /\ ck.chunks[k] =
                           SubSeq(ck.text, from + 1, Min(from + size, Len(ck.text)))
            /\ \A k \in 1..(n - 2) :
                  Cardinality(Positions(ck.chunks[k])
                              \cap Positions(ck.chunks[k + 1])) = overlap

C12_ChunksCoverText ==
    /\ []C12_CoverInv
    /\ [][(/\ ValidConfig(settings)
           /\ ck.pc = "loop" /\ ck'.pc = "loop"
           /\ ck'.iters = ck.iters + 1
           /\ ck'.chunks = ck.chunks) =>
              LET window == PySlice(ck.text, ck.start,
                                    ck.start + settings.chunk_size)
              IN  /\ Len(window) <= settings.chunk_overlap
                  /\ Positions(window) \subseteq
                        UNION {Positions(ck.chunks[k]) : k \in 1..Len(ck.chunks)}]_vars

C12_Witness ==
    /\ ValidConfig(settings)
    /\ settings.chunk_overlap > 0
    /\ ck.pc = "done"
    /\ Len(ck.chunks) >= 3
    /\ ck.iters > Len(ck.chunks)

\* C13: under a valid configuration _chunk_text returns the empty sequence
\* for the empty text, the one chunk <<text>> for a non-empty text shorter than
\* chunk_size, and at least one chunk for every non-empty text; and an
\* iteration appends its window exactly when the window is the first one or
\* is longer than chunk_overlap.
C13_EdgeInv ==
    (ValidConfig(settings) /\ ck.pc = "done") =>
        /\ ck.chunks = ChunkText(settings, ck.text)
        /\ ck.text = <<>> => ck.chunks = <<>>
        /\ (ck.text # <<>> /\ Len(ck.text) < settings.chunk_size) =>
              ck.chunks = <<ck.text>>
        /\ ck.text # <<>> => Len(ck.chunks) >= 1

C13_ChunkEdgeCases ==
    /\ []C13_EdgeInv
    /\ [][(/\ ValidConfig(settings)
           /\ ck.pc = "loop" /\ ck'.pc = "loop"
           /\ ck'.iters = ck.iters + 1) =>
              LET window == PySlice(ck.text, ck.start,
                                    ck.start + settings.chunk_size)
                  emit   == \/ ck.iters = 0
                            \/ Len(window) > settings.chunk_overlap
              IN  /\ emit => ck'.chunks = Append(ck.chunks, window)
                  /\ ~emit => ck'.chunks = ck.chunks]_vars

C13_Witness ==
    /\ ValidConfig(settings)
    /\ ck.pc = "done"
    /\ ck.text # <<>>
    /\ Len(ck.text) < settings.chunk_size
    /\ Len(ck.text) <= settings.chunk_overlap
    /\ ck.chunks = <<ck.text>>

\* The steps at which a request waits on generate_embeddings or
\* generate_chat_completion.
ProviderPcs == {"adc_embed", "ss_embed", "pq_complete"}

\* C14: one generate_embeddings / generate_chat_completion call makes at most
\* three provider attempts.  A failed attempt before the third is followed by
\* one more attempt; the call raises the provider's error only when the third
\* attempt has failed; a call that goes on hands its caller what the provider
\* answered (never a made-up value) and attempts nothing more.
C14_AttemptInv ==
    \A p \in Procs :
        /\ sess[p].pc \in ProviderPcs => sess[p].attempt \in 1..MaxAttempts
        /\ sess[p].pc \notin ProviderPcs => sess[p].attempt = 0

C14_AtMostThreeAttempts ==
    /\ []C14_AttemptInv
    /\ [][\A p \in Procs :
            (sess[p].pc \in ProviderPcs /\ sess'[p] # sess[p]) =>
                LET s == sess[p]
                    t == sess'[p]
                IN  \/ /\ t.pc = s.pc
                       /\ s.attempt < MaxAttempts
                       /\ t.attempt = s.attempt + 1
                    \/ /\ t.pc = "failed"
                       /\ t.error = "ProviderError"
                       /\ s.attempt = MaxAttempts
                    \/ /\ t.pc = "failed"
                       /\ t.error = "IndexError"
                       /\ s.pc = "ss_embed"
                       /\ <<>> \in EmbedResponses(s.texts)
                    \/ /\ s.pc = "adc_embed" /\ t.pc = "adc_commit"
                       /\ \E data \in EmbedResponses(s.texts) :
                             t.pend.chunks = ZipChunks(s.document_id, s.chunks, data)
                    \/ /\ s.pc = "ss_embed" /\ t.pc = "ss_query"
                       /\ \E data \in EmbedResponses(s.texts) :
                             data # <<>> /\ t.query_embedding = data[1]
                    \/ /\ s.pc = "pq_complete" /\ t.pc = "pq_commit"
                       /\ t.llm_response = CompletionOf(s.messages)]_vars

C14_Witness ==
    \E p \in Procs :
        /\ sess[p].op = "query" /\ sess[p].pc = "failed"
        /\ sess[p].failed_at = "pq_complete"
        /\ sess[p].error = "ProviderError"
        /\ sess[p].embed_called /\ sess[p].completion_called

\* C15: embedding keeps the order of its inputs end to end: every stored
\* chunk carries the embedding of its own chunk text, in whatever order the
\* provider listed the items of its response.
C15_EmbeddingOrderPreserved ==
    \A c \in committed.chunks : c.embedding = TrueEmbedding(c.chunk_text)

\* C16: the request's parameter names depend only on whether the configured
\* model identifier begins with gpt-5.  If it does, the request has
\* max_completion_tokens (the caller's cap or the configured one) and neither
\* temperature nor max_tokens, whatever temperature was passed; if not, it has
\* max_tokens and temperature and no max_completion_tokens.  Exactly one of
\* the two cap names is present.
C16_ParamShape ==
    (call.fn = "generate_chat_completion" /\ call.pc = "request") =>
        LET m     == call.self.model
            gpt5  == /\ Len(m) >= 5
                     /\ m[1] = "g" /\ m[2] = "p" /\ m[3] = "t"
                     /\ m[4] = "-" /\ m[5] = "5"
            names == DOMAIN call.params
            caps  == {call.self.max_tokens}
                     \cup (IF call.max_tokens = None THEN {} ELSE {call.max_tokens[1]})
        IN  /\ gpt5 =>
                  /\ "max_completion_tokens" \in names
                  /\ call.params["max_completion_tokens"] \in caps
                  /\ "temperature" \notin names
                  /\ "max_tokens" \notin names
            /\ ~gpt5 =>
                  /\ "max_tokens" \in names
                  /\ call.params["max_tokens"] \in caps
                  /\ "temperature" \in names
                  /\ "max_completion_tokens" \notin names
            /\ Cardinality(names \cap {"max_tokens", "max_completion_tokens"}) = 1

C16_Witness ==
    /\ call.fn = "generate_chat_completion" /\ call.pc = "request"
    /\ StartsWith(call.self.model, Gpt5Prefix)
    /\ Len(call.self.model) > 5
    /\ call.temperature = Some(3)
    /\ "max_completion_tokens" \in DOMAIN call.params

\* C17: _build_prompt returns: first the system message, the only message of
\* role system that does not come from the history; then the last min(5, n)
\* of the n history messages, oldest first, each with its role and content and
\* nothing else; last a user message holding the query.  The length is
\* 2 + min(5, n), and 2 when the history is None or empty.
C17_PromptShape ==
    (call.fn = "_build_prompt" /\ call.pc = "done") =>
        LET h    == IF call.conversation_history = None THEN <<>>
                    ELSE call.conversation_history[1]
            kept == IF Len(h) < 5 THEN Len(h) ELSE 5
            r    == call.messages
        IN  /\ Len(r) = 2 + kept
            /\ r[1].role = "system"
            /\ r[1] = SystemMessage
            /\ \A i \in 1..kept :
                  LET msg == h[Len(h) - kept + i]
                  IN  r[1 + i] = [role |-> msg.role, content |-> msg.content]
            /\ r[Len(r)].role = "user"
            /\ r[Len(r)].content.query = call.query
            /\ \A i \in 2..Len(r) :
                  r[i].role = "system" =>
                      /\ i <= 1 + kept
                      /\ h[Len(h) - kept + i - 1].role = "system"

C17_Witness ==
    /\ call.fn = "_build_prompt" /\ call.pc = "done"
    /\ call.conversation_history # None
    /\ Len(call.conversation_history[1]) > 5
    /\ Len(call.messages) = 7
    /\ call.messages[2].content.text = Len(call.conversation_history[1]) - 4

\* C18: a health check always returns a response, never an error; its
\* aggregate status is healthy exactly when the store check and the provider
\* check both passed and degraded otherwise; a failed sub-check is told in
\* that sub-check's own status string; and the provider check is made after
\* the store check whether or not the store check failed.
C18_HealthInv ==
    \A p \in Procs :
        LET s == sess[p] IN
        s.op = "health" =>
            /\ s.pc # "failed"
            /\ s.pc = "done" =>
                  LET db_failed     == s.failed_at = "hc_db"
                      openai_failed == s.error = "ProviderError"
                  IN  /\ s.completion_called
                      /\ s.response.database = "healthy" <=> ~db_failed
                      /\ s.response.openai = "healthy" <=> ~openai_failed
                      /\ s.response.status = "healthy" <=>
                            (~db_failed /\ ~openai_failed)
                      /\ s.response.status # "healthy" =>
                            s.response.status = "degraded"

C18_HealthAggregate ==
    /\ []C18_HealthInv
    /\ [][\A p \in Procs :
            (sess[p].pc = "hc_db" /\ sess'[p].pc # "hc_db") =>
                /\ sess'[p].pc = "hc_openai"
                /\ sess'[p].attempt = 1]_vars

C18_Witness ==
    \E p \in Procs :
        /\ sess[p].op = "health" /\ sess[p].pc = "done"
        /\ sess[p].failed_at = "hc_db"
        /\ sess[p].response.database # "healthy"
        /\ sess[p].response.openai = "healthy"
        /\ sess[p].response.status = "degraded"

\* C19: chunks never outlive their document.  In every committed state each
\* chunk's document_id is the id of a committed document; when
\* delete_document(id) has returned True no document and no chunk of that id
\* is committed, and it returns True only for a document that was there; on
\* an absent id it returns False (or raises a store error) and the tables are
\* left as they were.
C19_CascadeInv ==
    /\ \A c \in committed.chunks : c.document_id \in DocIds(committed)
    /\ \A p \in Procs :
          (/\ sess[p].op = "delete" /\ sess[p].pc = "done"
           /\ sess[p].response.deleted) =>
              /\ sess[p].document_id \notin DocIds(committed)
              /\ ChunksOf(committed, sess[p].document_id) = {}

C19_ChunksNeverOutliveDocument ==
    /\ []C19_CascadeInv
    /\ [][\A p \in Procs :
            (sess[p].op = "delete" /\ sess'[p] # sess[p]) =>
                /\ (sess'[p].pc = "done" /\ sess'[p].response.deleted) =>
                      sess[p].document_id \in DocIds(committed)
                /\ sess[p].document_id \notin DocIds(committed) =>
                      /\ committed' = committed
                      /\ \/ sess'[p].pc = "failed"
                         \/ sess'[p].pc = "idle"
                         \/ /\ sess'[p].pc = "done"
                            /\ ~sess'[p].response.deleted]_vars

C19_Witness ==
    \E p \in Procs :
        /\ sess[p].op = "delete" /\ sess[p].pc = "done"
        /\ sess[p].response.deleted
        /\ sess[p].document_id = 1
        /\ nextId.chunk > 2
        /\ committed.chunks = {}

\* C20: get_document only reads.  What it returns is fixed by the committed
\* documents and the id asked for (the document of that id, of which there is
\* at most one, or None), so two calls with no change in between return the
\* same; and no step of a get_document call changes a table or a sequence.
C20_GetInv ==
    /\ \A d1, d2 \in committed.docs : d1.id = d2.id => d1 = d2
    /\ \A p \in Procs :
          (sess[p].op = "get" /\ sess[p].pc = "done") =>
              \/ /\ sess[p].response = None
                 /\ sess[p].document_id \notin DocIds(committed)
              \/ /\ sess[p].response # None
                 /\ sess[p].response[1] \in committed.docs
                 /\ sess[p].response[1].id = sess[p].document_id

C20_GetDocumentPure ==
    /\ []C20_GetInv
    /\ [][(\E p \in Procs :
             /\ sess'[p] # sess[p]
             /\ sess[p].op = "get" \/ sess'[p].op = "get") =>
                /\ committed' = committed
                /\ nextId' = nextId]_vars

C20_Witness ==
    \E p \in Procs :
        /\ sess[p].op = "get" /\ sess[p].pc = "done"
        /\ sess[p].response # None
        /\ sess[p].response[1].id = sess[p].document_id
        /\ Cardinality(committed.docs) >= 1

\* The steps a process_query call may take next from each of its steps
\* (a provider step may be taken again: the next attempt of the same call).
QueryStepsAfter(pc) ==
    CASE pc = "pq_resolve"      -> {"pq_conv_refresh", "ss_embed", "failed"}
      [] pc = "pq_conv_refresh" -> {"ss_embed", "failed"}
      [] pc = "ss_embed"        -> {"ss_embed", "ss_query", "failed"}
      [] pc = "ss_query"        -> {"pq_complete", "failed"}
      [] pc = "pq_complete"     -> {"pq_complete", "pq_commit", "failed"}
      [] pc = "pq_commit"       -> {"pq_refresh", "failed"}
      [] pc = "pq_refresh"      -> {"done", "failed"}
      [] OTHER                  -> {"idle"}

\* C21: a query goes through resolve, retrieve, build prompt, generate,
\* persist, respond in that order, no step skipped or taken twice.  The
\* completion provider is called only after the search of the request has
\* returned; messages are added and committed only after the completion has
\* returned; and a step that fails ends the request, no later step having run.
C21_OrderInv ==
    \A p \in Procs :
        LET s == sess[p] IN
        s.op = "query" =>
            /\ s.completion_called => (s.embed_called /\ s.sql_issued)
            /\ s.sql_issued => s.embed_called
            /\ s.pc \in {"pq_resolve", "pq_conv_refresh", "ss_embed", "ss_query"} =>
                  ~s.completion_called
            /\ s.pc \in {"pq_resolve", "pq_conv_refresh", "ss_embed", "ss_query",
                         "pq_complete"} =>
                  (s.pend.msgs = <<>> /\ s.message_id = 0)
            /\ s.pend.msgs # <<>> =>
                  (s.pc = "pq_commit" /\ s.completion_called
                   /\ s.llm_response # <<>>)
            /\ s.message_id # 0 =>
                  \/ s.pc \in {"pq_refresh", "done"}
                  \/ s.pc = "failed" /\ s.failed_at = "pq_refresh"
            /\ s.pc = "failed" =>
                  /\ s.response = <<>>
                  /\ s.failed_at \in {"pq_resolve", "pq_conv_refresh"} =>
                        ~s.embed_called
                  /\ s.failed_at \in {"pq_resolve", "pq_conv_refresh", "ss_embed"} =>
                        ~s.sql_issued
                  /\ s.failed_at \in {"pq_resolve", "pq_conv_refresh", "ss_embed",
                                      "ss_query"} => ~s.completion_called
                  /\ s.failed_at # "pq_refresh" => s.message_id = 0

C21_StepOrder ==
    /\ []C21_OrderInv
    /\ [][\A p \in Procs :
            (sess[p].op = "query" /\ sess'[p] # sess[p]) =>
                /\ sess'[p].pc \in QueryStepsAfter(sess[p].pc)
                /\ committed'.msgs # committed.msgs =>
                      (sess[p].pc = "pq_commit" /\ sess'[p].pc = "pq_refresh")]_vars

C21_Witness ==
    \E p \in Procs :
        /\ sess[p].op = "query" /\ sess[p].pc = "done"
        /\ sess[p].created_conv
        /\ sess[p].similar_chunks # <<>>
        /\ sess[p].message_id = 2

\* C22: the sequence a query sends to the completion provider is built from
\* the query and the chunks retrieved for this request alone: exactly two
\* messages, the system message and the user message (the retrieved chunk
\* texts in search order, and the query), whatever messages the conversation
\* already holds.
C22_NoHistoryInPrompt ==
    \A p \in Procs :
        LET s == sess[p] IN
        (s.op = "query" /\ s.pc \in {"pq_complete", "pq_commit", "pq_refresh", "done"}) =>
            /\ Len(s.messages) = 2
            /\ s.messages[1] = SystemMessage
            /\ s.messages[2].role = "user"
            /\ s.messages[2].content.query = s.query
            /\ s.messages[2].content.sources =
                  [i \in 1..Len(s.similar_chunks) |->
                      s.similar_chunks[i].chunk.chunk_text]
            /\ s.messages[2].content.kind =
                  (IF s.similar_chunks = <<>> THEN "no_context" ELSE "context")

C22_Witness ==
    \E p \in Procs :
        /\ sess[p].op = "query" /\ sess[p].pc = "pq_complete"
        /\ ~sess[p].created_conv
        /\ Cardinality(MessagesOf(committed, sess[p].conv)) >= 2
        /\ \E m \in MessagesOf(committed, sess[p].conv) :
              m.role = "user" /\ m.content # sess[p].query
        /\ Len(sess[p].messages) = 2

\* C23: for a query that returned, one number n is reported everywhere: n
\* chunks came back from the search, n <= top_k, the committed assistant
\* message whose id is the response's message_id (a message of this request's
\* conversation, holding the generated text) has sources_count n, the
\* response's retrieved_chunks is n; the response lists the n chunks as
\* sources in search order when include_sources is true and lists none when
\* it is false.
C23_RetrievedCountConsistent ==
    \A p \in Procs :
        LET s == sess[p] IN
        (s.op = "query" /\ s.pc = "done") =>
            LET n == Len(s.similar_chunks) IN
            /\ n <= s.top_k
            /\ s.response.retrieved_chunks = n
            /\ \E a \in committed.msgs :
                  /\ a.id = s.response.message_id
                  /\ a.role = "assistant"
                  /\ a.conversation_id = s.conv
                  /\ a.conversation_id = s.response.conversation_id
                  /\ a.content = s.response.response
                  /\ a.sources_count = n
            /\ s.include_sources =>
                  /\ Len(s.response.sources) = n
                  /\ \A i \in 1..n :
                        /\ s.response.sources[i].chunk_id = s.similar_chunks[i].chunk.id
                        /\ s.response.sources[i].document_id =
                              s.similar_chunks[i].chunk.document_id
                        /\ s.response.sources[i].content =
                              s.similar_chunks[i].chunk.chunk_text
                        /\ s.response.sources[i].similarity_score =
                              s.similar_chunks[i].score
            /\ ~s.include_sources => s.response.sources = <<>>

C23_Witness ==
    \E p \in Procs :
        /\ sess[p].op = "query" /\ sess[p].pc = "done"
        /\ ~sess[p].include_sources
        /\ Len(sess[p].similar_chunks) >= 1
        /\ Len(sess[p].similar_chunks) = sess[p].top_k
        /\ Cardinality(committed.chunks) > sess[p].top_k

\* The tasks whose query has committed its pair on conversation c.
Committers(c) ==
    {p \in Procs : /\ sess[p].op = "query"
                   /\ sess[p].pc \in {"pq_refresh", "done"}
                   /\ sess[p].conv = c}

\* C24: queries on one conversation running interleaved lose no write and do
\* not wait for one another.  Every change of the message table is one
\* query's commit, which adds that query's user and assistant message
\* together and removes nothing; so a conversation always holds as many user
\* as assistant messages, and when k tasks have committed on it, their k
\* pairs are all there, each with its own query.  A query that is ready to
\* commit can always commit, whatever the other tasks are doing.
C24_ConcInv ==
    /\ \A c \in committed.convs :
          /\ Cardinality({m \in MessagesOf(committed, c) : m.role = "user"})
               = Cardinality({m \in MessagesOf(committed, c) : m.role = "assistant"})
          /\ LET k     == Cardinality(Committers(c))
                 pairs == {<<u, a>> \in MessagesOf(committed, c) \X MessagesOf(committed, c) :
                             /\ u.role = "user" /\ a.role = "assistant"
                             /\ \E p \in Committers(c) :
                                   /\ a.id = sess[p].message_id
                                   /\ u.id = a.id - 1
                                   /\ u.content = sess[p].query}
             IN  /\ Cardinality(pairs) = k
                 /\ Cardinality(MessagesOf(committed, c)) >= 2 * k
    /\ \A p \in Procs :
          (sess[p].op = "query" /\ sess[p].pc = "pq_commit") =>
              ENABLED (PqCommit(p) /\ sess'[p].pc = "pq_refresh")

C24_ConcurrentQueriesKeepPairs ==
    /\ []C24_ConcInv
    /\ [][/\ committed.msgs \subseteq committed'.msgs
          /\ committed'.msgs # committed.msgs =>
                \E p \in Procs :
                    LET new == committed'.msgs \ committed.msgs
                    IN  /\ sess[p].pc = "pq_commit" /\ sess'[p].pc = "pq_refresh"
                        /\ \A q \in Procs \ {p} : sess'[q] = sess[q]
                        /\ Cardinality(new) = 2
                        /\ \A m \in new : m.conversation_id = sess[p].conv
                        /\ \E u, a \in new :
                              /\ u.role = "user" /\ u.content = sess[p].query
                              /\ a.role = "assistant"
                              /\ a.id = sess'[p].message_id
                        /\ Cardinality(MessagesOf(committed', sess[p].conv))
                             = Cardinality(MessagesOf(committed, sess[p].conv)) + 2]_vars

C24_Witness ==
    /\ Committers(1) = Procs
    /\ \A p \in Procs : sess[p].pc = "done" /\ sess[p].conversation_id = Some(1)
    /\ sess["t1"].query # sess["t2"].query
    /\ sess["t2"].message_id < sess["t1"].message_id
    /\ Cardinality(MessagesOf(committed, 1)) = 6

\* C25: a request cancelled while it awaits, before its commit (for a query
\* the commit of process_query, for an ingest the commit of create_document),
\* has committed nothing: a query no conversation of its own and no message,
\* an ingest no document and no chunk; and the step at which a request is
\* cancelled changes no committed row.
C25_CancelInv ==
    \A p \in Procs :
        LET s == sess[p] IN
        (s.pc = "failed" /\ s.error = "CancelledError") =>
            /\ (s.op = "query" /\ s.failed_at # "pq_refresh") =>
                  /\ s.created_conv => s.conv \notin committed.convs
                  /\ s.message_id = 0
            /\ (s.op = "ingest" /\ s.failed_at # "cd_refresh") =>
                  /\ s.document_id \notin DocIds(committed)
                  /\ ChunksOf(committed, s.document_id) = {}

C25_CancelCommitsNothing ==
    /\ []C25_CancelInv
    /\ [][(\E p \in Procs : /\ sess'[p].error = "CancelledError"
                            /\ sess[p].error # "CancelledError") =>
              committed' = committed]_vars

\* C26: ingest and query write disjoint tables.  No step of a query, the
\* rollback of a failed one included, changes the documents, the chunks or
\* their id sequences; no step of an ingest changes the conversations, the
\* messages or their id sequences.
C26_DisjointWriteSets ==
    [][\A p \in Procs :
          sess'[p] # sess[p] =>
              /\ (sess[p].op = "query" \/ sess'[p].op = "query") =>
                    /\ committed'.docs = committed.docs
                    /\ committed'.chunks = committed.chunks
                    /\ nextId'.doc = nextId.doc
                    /\ nextId'.chunk = nextId.chunk
              /\ (sess[p].op = "ingest" \/ sess'[p].op = "ingest") =>
                    /\ committed'.convs = committed.convs
                    /\ committed'.msgs = committed.msgs
                    /\ nextId'.conv = nextId.conv
                    /\ nextId'.msg = nextId.msg]_vars

C26_Witness ==
    \E p \in Procs :
        /\ sess[p].op = "query" /\ sess[p].pc = "failed"
        /\ sess[p].failed_at = "pq_commit"
        /\ sess[p].created_conv
        /\ committed.docs # {}
        /\ committed.chunks # {}
        /\ committed.convs = {}

\* C27: similarity_search filters with the threshold it was given, whatever
\* its value (0 included), and with the configured rag_similarity_threshold
\* only when it was given none: the rows returned all score at least that
\* threshold, and they are as many as top_k allows of the chunks that do.
C27_ExplicitThresholdUsed ==
    \A p \in Procs :
        (sess[p].op = "search" /\ sess[p].pc = "done") =>
            LET thr  == IF sess[p].similarity_threshold = None
                        THEN rag_similarity_threshold
                        ELSE sess[p].similarity_threshold[1]
                res  == sess[p].similar_chunks
                pass == {c \in committed.chunks :
                            Similarity(c.embedding, sess[p].query_embedding) >= thr}
            IN  /\ \A i \in 1..Len(res) : res[i].score >= thr
                /\ {res[i].chunk : i \in 1..Len(res)} \subseteq pass
                /\ Len(res) = (IF sess[p].top_k < Cardinality(pass)
                               THEN sess[p].top_k ELSE Cardinality(pass))

====
